---- MODULE Spec2Model ----
(***************************************************************************)
(* Model of the WebAuthn worker of src/src/index.ts: the four endpoints    *)
(* /register/challenge, /register/verify, /login/challenge, /login/verify  *)
(* over one KV namespace.  Every `await env.Storage.get` and               *)
(* `await env.Storage.put` is a step of its own, so that concurrent        *)
(* invocations of the handler interleave exactly at those points.          *)
(***************************************************************************)
EXTENDS Integers, Sequences, FiniteSets, TLC

(* ------------------------------ bounds -------------------------------- *)
\* number of handler invocations that may be in flight at once
NumProcs == 2
\* total number of requests served in one behaviour
MaxRequests == 4
\* number of distinct values randomChallenge() can return in the model
NumChallenges == 2
\* largest signature counter an authenticator reports
MaxCounter == 2

(* ----------------------------- constants ------------------------------ *)
\* the empty challenge "" of a lazily created record
EmptyChallenge == 0
\* HTTP status codes of the responses; NoStatus is "nothing sent yet"
NoStatus == 0
Ok == 200
BadRequest == 400
NotFound == 404
Gone == 410

Procs == 1..NumProcs
\* the usernames of the requests; "" is the missing/empty username
Usernames == {"alice"}
CredentialIds == {"cred-1", "cred-2"}
Counters == 0..MaxCounter

\* randomChallenge(): any of the non-empty tokens
randomChallenge == 1..NumChallenges

\* request bodies: the encoded registration / authentication, reduced to what
\* the handler and the verifier's contract read from them: the challenge the
\* assertion is bound to, the credential id and the authenticator's counter.
\* NoBody is a missing `registration` or `authentication` field.
NoBody ==
    [present |-> FALSE, challenge |-> EmptyChallenge, credentialId |-> "",
     counter |-> 0]
Bodies ==
    [present : {TRUE}, challenge : randomChallenge, credentialId : CredentialIds,
     counter : Counters]
BodyInputs == Bodies \cup {NoBody}

NoRequest == [route |-> "", username |-> "", body |-> NoBody]

\* `{ challenge: "", credentials: [] }`
DefaultStorage == [challenge |-> EmptyChallenge, credentials |-> <<>>]

NoExpected == [challenge |-> EmptyChallenge, hasCounter |-> FALSE, counter |-> 0]

\* what a response carries besides its status: "{}" (jsonResponse without
\* data), "error" ({name, message, details}), "challenge" or "parsed"
NoSnapshot == [consumed |-> FALSE, issued |-> <<>>]

NoResponse ==
    [route |-> "", username |-> "", body |-> NoBody, status |-> NoStatus,
     data |-> "{}", challenge |-> EmptyChallenge, atLoad |-> NoSnapshot,
     before |-> <<>>]

VARIABLES
    store,      \* env.Storage: username -> UserStorage, for the keys present
    pc,         \* position of each invocation
    req,        \* the parsed request of each invocation
    storage,    \* the `storage` local of each invocation, as loaded
    challenge,  \* the `challenge` local of each invocation
    expected,   \* the expectation bundle handed to the verifier
    response,   \* the response most recently sent, with the request it answers
    nreq,       \* requests started so far
    consumed,   \* history: a verification succeeded since the last issuance
    issued,     \* history: the issuances in succession (last two), each with its route
    atLoad      \* history: consumed and issued as they were at the load

vars ==
    <<store, pc, req, storage, challenge, expected, response, nreq,
      consumed, issued, atLoad>>

history == <<consumed, issued>>

(* --------------------------- pure helpers ----------------------------- *)
\* env.Storage.get(username, "json"): the record, or null when absent
Present(username) == username \in DOMAIN store

\* mutant: the value is written under every key, the username not used
PutUnkeyed(username, value) ==
    [k \in DOMAIN store \cup {username} |-> value]

\* env.Storage.put(username, JSON.stringify(value))
Put(username, value) ==
    [k \in DOMAIN store \cup {username} |->
        IF k = username THEN value ELSE store[k]]

\* mutant: `{ challenge, ...storage }`, the spread in the wrong order: a
\* challenge already in the record wins
WithChallengeSpreadLast(s, c) ==
    IF s.challenge = EmptyChallenge THEN [s EXCEPT !.challenge = c] ELSE s

\* mutant: `{ challenge, credentials: [] }`, the spread forgotten
WithChallengeOnly(s, c) == [challenge |-> c, credentials |-> <<>>]

\* mutant: `{ ...storage }`, the new challenge not stored
WithoutChallenge(s, c) == s

\* `{ ...storage, challenge }`
WithChallenge(s, c) == [s EXCEPT !.challenge = c]

\* RegistrationParsed as stored: credential.id and authenticator.counter
ParsedRegistration(body) == [id |-> body.credentialId, counter |-> body.counter]

\* mutant: `credentials: [parsed, ...storage.credentials]`
PrependCredential(s, parsed) ==
    [s EXCEPT !.credentials = <<parsed>> \o s.credentials]

\* mutant: the challenge is cleared with the append
AppendCredentialClearing(s, parsed) ==
    [challenge |-> EmptyChallenge, credentials |-> Append(s.credentials, parsed)]

\* `{ ...storage, credentials: [...storage.credentials, parsed] }`
AppendCredential(s, parsed) ==
    [s EXCEPT !.credentials = Append(s.credentials, parsed)]

\* `!storage?.challenge`
MissingChallenge(username) ==
    \/ ~Present(username)
    \/ store[username].challenge = EmptyChallenge

\* mutant: `!storage`, the length not looked at
NoRecord(username) == ~Present(username)

\* `!storage?.credentials.length`
NoCredentials(username) ==
    \/ ~Present(username)
    \/ Len(store[username].credentials) = 0

\* mutant: `findLast(...)`: the index of the last match
FindLastCredential(credentials, id) ==
    IF \E i \in 1..Len(credentials) : credentials[i].id = id
    THEN CHOOSE i \in 1..Len(credentials) :
            /\ credentials[i].id = id
            /\ \A j \in (i + 1)..Len(credentials) : credentials[j].id # id
    ELSE 0

\* mutant: `find(...) ?? storage.credentials[0]`
FindCredentialOrFirst(credentials, id) ==
    IF \E i \in 1..Len(credentials) : credentials[i].id = id
    THEN CHOOSE i \in 1..Len(credentials) :
            /\ credentials[i].id = id
            /\ \A j \in 1..(i - 1) : credentials[j].id # id
    ELSE IF Len(credentials) > 0 THEN 1 ELSE 0

\* `storage.credentials.find((c) => c.credential.id === id)`: the index of
\* the first match, 0 when there is none
FindCredential(credentials, id) ==
    IF \E i \in 1..Len(credentials) : credentials[i].id = id
    THEN CHOOSE i \in 1..Len(credentials) :
            /\ credentials[i].id = id
            /\ \A j \in 1..(i - 1) : credentials[j].id # id
    ELSE 0

\* mutant: `{ origin }`, the challenge left out of the expectation
RegisterExpectedNoChallenge(s) ==
    [challenge |-> EmptyChallenge, hasCounter |-> FALSE, counter |-> 0]

\* expected = { challenge, origin }, for /register/verify
RegisterExpected(s) ==
    [challenge |-> s.challenge, hasCounter |-> FALSE, counter |-> 0]

\* mutant: `expected.counter = cred.authenticator.counter`, unguarded
LoginExpectedAlways(s, cred) ==
    [challenge |-> s.challenge, hasCounter |-> TRUE, counter |-> cred.counter]

\* expected = { challenge, origin, userVerified: true } and
\* `if (cred.authenticator.counter > 0) expected.counter = ...`
LoginExpected(s, cred) ==
    [challenge |-> s.challenge,
     hasCounter |-> cred.counter > 0,
     counter |-> IF cred.counter > 0 THEN cred.counter ELSE 0]

\* mutant: the counter is assigned on a copy of the credential
SetCounterOnCopy(s, i, newCounter) == s

\* `cred.authenticator.counter = parsed.newCounter`
SetCounter(s, i, newCounter) ==
    [s EXCEPT !.credentials[i].counter = newCounter]

\* server.verifyRegistration may resolve only for an assertion that is bound
\* to the expected challenge
VerifyRegistrationMayAccept(body, e) ==
    body.challenge = e.challenge

\* server.verifyAuthentication may resolve only for an assertion that is bound
\* to the expected challenge and, when an expected counter is passed, reports
\* a new counter greater than it
VerifyAuthenticationMayAccept(body, e) ==
    /\ body.challenge = e.challenge
    /\ e.hasCounter => body.counter > e.counter

\* history: what an issuance is remembered by
Issue(p) == [challenge |-> challenge[p], route |-> req[p].route]

LastTwo(s) == IF Len(s) > 2 THEN SubSeq(s, Len(s) - 1, Len(s)) ELSE s

(* ------------------------------- Init --------------------------------- *)
\* the KV namespace is empty and no invocation is running; `users` are the
\* usernames the history is kept for
InitFor(users) ==
    /\ store = << >>
    /\ consumed = [u \in users |-> FALSE]
    /\ issued = [u \in users |-> <<>>]
    /\ pc = [p \in Procs |-> "idle"]
    /\ req = [p \in Procs |-> NoRequest]
    /\ storage = [p \in Procs |-> DefaultStorage]
    /\ challenge = [p \in Procs |-> EmptyChallenge]
    /\ expected = [p \in Procs |-> NoExpected]
    /\ response = NoResponse
    /\ nreq = 0
    /\ atLoad = [p \in Procs |-> NoSnapshot]

Init == InitFor(Usernames)

(* ------------------------- request life cycle ------------------------- *)
\* A request arrives and is parsed (`await request.json()`).  Invocations
\* are anonymous: the request takes the lowest free slot.
Accept(p) ==
    /\ pc[p] = "idle"
    /\ \A q \in Procs : q < p => pc[q] # "idle"
    /\ nreq < MaxRequests
    /\ nreq' = nreq + 1

\* the response to request r, with the history its invocation loaded under
\* and the credentials stored for its username when it is sent
Response(p, r, status, data, c) ==
    [route |-> r.route, username |-> r.username, body |-> r.body,
     status |-> status, data |-> data, challenge |-> c, atLoad |-> atLoad[p],
     before |-> IF r.username \in DOMAIN store
                THEN store[r.username].credentials ELSE <<>>]

\* the invocation answers request r and ends: its locals are gone
Return(p, r, status, data, c) ==
    /\ response' = Response(p, r, status, data, c)
    /\ pc' = [pc EXCEPT ![p] = "idle"]
    /\ req' = [req EXCEPT ![p] = NoRequest]
    /\ storage' = [storage EXCEPT ![p] = DefaultStorage]
    /\ challenge' = [challenge EXCEPT ![p] = EmptyChallenge]
    /\ expected' = [expected EXCEPT ![p] = NoExpected]
    /\ atLoad' = [atLoad EXCEPT ![p] = NoSnapshot]

\* the invocation has loaded record s for request r and goes on to `next`
\* with challenge c and expectation e
Goto(p, next, r, s, c, e) ==
    /\ pc' = [pc EXCEPT ![p] = next]
    /\ req' = [req EXCEPT ![p] = r]
    /\ storage' = [storage EXCEPT ![p] = s]
    /\ challenge' = [challenge EXCEPT ![p] = c]
    /\ expected' = [expected EXCEPT ![p] = e]
    /\ atLoad' = [atLoad EXCEPT ![p] =
            [consumed |-> consumed[r.username], issued |-> issued[r.username]]]
    /\ UNCHANGED response

\* the invocation moves from one await to the next
Step(p, next) ==
    /\ pc' = [pc EXCEPT ![p] = next]
    /\ UNCHANGED <<req, storage, challenge, expected, atLoad, response>>

(* ------------------------ /register/challenge ------------------------- *)
\* lines 43-47: parse, `if (!username)`, randomChallenge(), Storage.get
RegisterChallengeGet(p, username) ==
    LET r == [route |-> "/register/challenge", username |-> username, body |-> NoBody]
    IN  /\ Accept(p)
        /\ IF username = ""
           THEN Return(p, r, BadRequest, "{}", EmptyChallenge)
           ELSE \E c \in randomChallenge :
                    Goto(p, "rc_put", r,
                         IF Present(username) THEN store[username] ELSE DefaultStorage,
                         c, NoExpected)
        /\ UNCHANGED <<store, history>>

\* lines 49-50: Storage.put of `{ ...storage, challenge }`, respond 200
RegisterChallengePut(p) ==
    /\ pc[p] = "rc_put"
    /\ store' = Put(req[p].username, WithChallenge(storage[p], challenge[p]))
    /\ Return(p, req[p], Ok, "challenge", challenge[p])
    /\ consumed' = [consumed EXCEPT ![req[p].username] = FALSE]
    /\ issued' = [issued EXCEPT ![req[p].username] = LastTwo(Append(@, Issue(p)))]
    /\ UNCHANGED nreq

(* -------------------------- /register/verify -------------------------- *)
\* lines 55-59 and the expectation of lines 62-65: parse, the two guards,
\* Storage.get
RegisterVerifyGet(p, username, registration) ==
    LET r == [route |-> "/register/verify", username |-> username, body |-> registration]
    IN  /\ Accept(p)
        /\ IF username = "" \/ ~registration.present
           THEN Return(p, r, BadRequest, "{}", EmptyChallenge)
           ELSE IF MissingChallenge(username)
           THEN Return(p, r, Gone, "{}", EmptyChallenge)
           ELSE Goto(p, "rv_verify", r, store[username], EmptyChallenge,
                     RegisterExpected(store[username]))
        /\ UNCHANGED <<store, history>>

\* mutant: the catch block consumes the challenge of the record
RegisterVerifyCallConsuming(p) ==
    /\ pc[p] = "rv_verify"
    /\ \E resolves \in BOOLEAN :
          IF resolves /\ VerifyRegistrationMayAccept(req[p].body, expected[p])
          THEN Step(p, "rv_put") /\ UNCHANGED store
          ELSE /\ Return(p, req[p], BadRequest, "error", EmptyChallenge)
               /\ store' = Put(req[p].username,
                               WithChallenge(storage[p], EmptyChallenge))
    /\ UNCHANGED <<nreq, history>>

\* lines 61-65 and 69-74: server.verifyRegistration resolves or throws
RegisterVerifyCall(p) ==
    /\ pc[p] = "rv_verify"
    /\ \E resolves \in BOOLEAN :
          IF resolves /\ VerifyRegistrationMayAccept(req[p].body, expected[p])
          THEN Step(p, "rv_put")
          ELSE Return(p, req[p], BadRequest, "error", EmptyChallenge)
    /\ UNCHANGED <<store, nreq, history>>

\* mutant: the credential is appended to the record as it is stored at the
\* time of the put, not to the record the invocation loaded
RegisterVerifyPutOnStored(p) ==
    /\ pc[p] = "rv_put"
    /\ store' = Put(req[p].username,
                    AppendCredential(store[req[p].username],
                                     ParsedRegistration(req[p].body)))
    /\ Return(p, req[p], Ok, "{}", EmptyChallenge)
    /\ consumed' = [consumed EXCEPT ![req[p].username] = TRUE]
    /\ issued' = [issued EXCEPT ![req[p].username] = <<>>]
    /\ UNCHANGED nreq

\* lines 67-68: Storage.put of the record with the credential appended
RegisterVerifyPut(p) ==
    /\ pc[p] = "rv_put"
    /\ store' = Put(req[p].username,
                    AppendCredential(storage[p], ParsedRegistration(req[p].body)))
    /\ Return(p, req[p], Ok, "{}", EmptyChallenge)
    /\ consumed' = [consumed EXCEPT ![req[p].username] = TRUE]
    /\ issued' = [issued EXCEPT ![req[p].username] = <<>>]
    /\ UNCHANGED nreq

(* -------------------------- /login/challenge -------------------------- *)
\* lines 79-85: parse, `if (!username)`, Storage.get, the 404 guard,
\* randomChallenge()
LoginChallengeGet(p, username) ==
    LET r == [route |-> "/login/challenge", username |-> username, body |-> NoBody]
    IN  /\ Accept(p)
        /\ IF username = ""
           THEN Return(p, r, BadRequest, "{}", EmptyChallenge)
           ELSE IF NoCredentials(username)
           THEN Return(p, r, NotFound, "{}", EmptyChallenge)
           ELSE \E c \in randomChallenge :
                    Goto(p, "lc_put", r, store[username], c, NoExpected)
        /\ UNCHANGED <<store, history>>

\* lines 86-90: Storage.put of `{ ...storage, challenge }`, respond 200
LoginChallengePut(p) ==
    /\ pc[p] = "lc_put"
    /\ store' = Put(req[p].username, WithChallenge(storage[p], challenge[p]))
    /\ Return(p, req[p], Ok, "challenge", challenge[p])
    /\ consumed' = [consumed EXCEPT ![req[p].username] = FALSE]
    /\ issued' = [issued EXCEPT ![req[p].username] = LastTwo(Append(@, Issue(p)))]
    /\ UNCHANGED nreq

(* --------------------------- /login/verify ---------------------------- *)
\* the index in storage.credentials of `cred` (line 101)
Cred(p) == FindCredential(storage[p].credentials, req[p].body.credentialId)

\* mutant: the credential is looked up (`storage?.credentials.find`) before
\* the challenge is looked at
LoginVerifyGetCredentialFirst(p, username, authentication) ==
    LET r == [route |-> "/login/verify", username |-> username, body |-> authentication]
    IN  /\ Accept(p)
        /\ IF username = "" \/ ~authentication.present
           THEN Return(p, r, BadRequest, "{}", EmptyChallenge)
           ELSE IF \/ ~Present(username)
                   \/ FindCredential(store[username].credentials,
                                     authentication.credentialId) = 0
           THEN Return(p, r, NotFound, "{}", EmptyChallenge)
           ELSE IF MissingChallenge(username)
           THEN Return(p, r, Gone, "{}", EmptyChallenge)
           ELSE LET s == store[username]
                    i == FindCredential(s.credentials, authentication.credentialId)
                IN  Goto(p, "lv_verify", r, s, EmptyChallenge,
                         LoginExpected(s, s.credentials[i]))
        /\ UNCHANGED <<store, history>>

\* lines 95-110: parse, the guards, Storage.get, find, the expectation
LoginVerifyGet(p, username, authentication) ==
    LET r == [route |-> "/login/verify", username |-> username, body |-> authentication]
    IN  /\ Accept(p)
        /\ IF username = "" \/ ~authentication.present
           THEN Return(p, r, BadRequest, "{}", EmptyChallenge)
           ELSE IF MissingChallenge(username)
           THEN Return(p, r, Gone, "{}", EmptyChallenge)
           ELSE LET s == store[username]
                    i == FindCredential(s.credentials, authentication.credentialId)
                IN  IF i = 0
                    THEN Return(p, r, NotFound, "{}", EmptyChallenge)
                    ELSE Goto(p, "lv_verify", r, s, EmptyChallenge,
                              LoginExpected(s, s.credentials[i]))
        /\ UNCHANGED <<store, history>>

\* lines 112-113 and 120-125: server.verifyAuthentication resolves or throws
LoginVerifyCall(p) ==
    /\ pc[p] = "lv_verify"
    /\ \E resolves \in BOOLEAN :
          IF resolves /\ VerifyAuthenticationMayAccept(req[p].body, expected[p])
          THEN Step(p, "lv_put")
          ELSE Return(p, req[p], BadRequest, "error", EmptyChallenge)
    /\ UNCHANGED <<store, nreq, history>>

\* lines 116-119: the counter is overwritten and the whole record is put
LoginVerifyPut(p) ==
    /\ pc[p] = "lv_put"
    /\ store' = Put(req[p].username,
                    SetCounter(storage[p], Cred(p), req[p].body.counter))
    /\ Return(p, req[p], Ok, "parsed", EmptyChallenge)
    /\ consumed' = [consumed EXCEPT ![req[p].username] = TRUE]
    /\ issued' = [issued EXCEPT ![req[p].username] = <<>>]
    /\ UNCHANGED nreq

(* ------------------------------- Next --------------------------------- *)
\* requests for the usernames `users`, or without a username
NextFor(users) ==
    \E p \in Procs :
        \/ \E u \in users \cup {""} : RegisterChallengeGet(p, u)
        \/ RegisterChallengePut(p)
        \/ \E u \in users \cup {""}, b \in BodyInputs : RegisterVerifyGet(p, u, b)
        \/ RegisterVerifyCall(p)
        \/ RegisterVerifyPut(p)
        \/ \E u \in users \cup {""} : LoginChallengeGet(p, u)
        \/ LoginChallengePut(p)
        \/ \E u \in users \cup {""}, b \in BodyInputs : LoginVerifyGet(p, u, b)
        \/ LoginVerifyCall(p)
        \/ LoginVerifyPut(p)

Next == NextFor(Usernames)

Spec == Init /\ [][Next]_vars

\* the same worker serving requests for two usernames
TwoUsernames == {"alice", "bob"}
InitTwoUsers == InitFor(TwoUsernames)
NextTwoUsers == NextFor(TwoUsernames)
SpecTwoUsers == InitTwoUsers /\ [][NextTwoUsers]_vars

(* ====================================================================== *)
(* Properties                                                             *)
(* ====================================================================== *)
VerifyRoutes == {"/register/verify", "/login/verify"}
ChallengeRoutes == {"/register/challenge", "/login/challenge"}

\* a request arrives in this step
Arrives == nreq' = nreq + 1
\* ... and is answered at once, by the guards before the verifier
Answered == Arrives /\ pc' = pc
\* the request that arrives in this step
Arrived ==
    IF pc' = pc
    THEN [route |-> response'.route, username |-> response'.username,
          body |-> response'.body]
    ELSE req'[CHOOSE p \in Procs : pc'[p] # pc[p]]

\* the indices of the credentials with identifier id, and the least of a set
Matching(credentials, id) ==
    {i \in 1..Len(credentials) : credentials[i].id = id}
Least(S) == CHOOSE i \in S : \A j \in S : i <= j

\* invocation p sends its response in this step, from position `at`
Ends(p, at) == pc[p] \in at /\ pc'[p] = "idle"

(* ---------------------------------------------------------------------- *)
\* C1: a pending challenge is single-use: once a verification has succeeded
\* for a username, a further verification for that username that loads the
\* record before any new RequestChallenge has completed does not succeed.
C1_SingleUse ==
    (response.route \in VerifyRoutes /\ response.status = Ok)
        => ~response.atLoad.consumed

(* ---------------------------------------------------------------------- *)
\* C2: credentials never loses entries: every stored version of a record has
\* the previously stored credentials (by credentialId) as a prefix, and a
\* stored record does not disappear.
C2_NeverLosesEntries ==
    [][\A u \in DOMAIN store :
          /\ u \in DOMAIN store'
          /\ Len(store[u].credentials) <= Len(store'[u].credentials)
          /\ \A i \in 1..Len(store[u].credentials) :
                store'[u].credentials[i].id = store[u].credentials[i].id]_vars

(* ---------------------------------------------------------------------- *)
\* C3: replay defence: a save of VerifyAuthentication never replaces a
\* non-zero stored counter of the credential it matched by a smaller
\* non-zero counter.
C3_CounterNeverDecreases ==
    [][\A p \in Procs :
          Ends(p, {"lv_put"}) =>
             LET u == req[p].username
                 id == req[p].body.credentialId
                 i == Least(Matching(storage[p].credentials, id))
                 old == store[u].credentials
                 new == store'[u].credentials
             IN  (/\ i <= Len(old)
                  /\ old[i].id = id
                  /\ old[i].counter > 0
                  /\ new[i].counter > 0) => new[i].counter >= old[i].counter]_vars

(* ---------------------------------------------------------------------- *)
\* c is the first of two different challenges issued in succession
Superseded(snapshot, c) ==
    /\ Len(snapshot.issued) = 2
    /\ snapshot.issued[1].challenge # snapshot.issued[2].challenge
    /\ c = snapshot.issued[1].challenge

C5_CounterOverwritten ==
    [][\A p \in Procs :
          Ends(p, {"lv_put"}) =>
             LET u == req[p].username
                 id == req[p].body.credentialId
                 i == Least(Matching(storage[p].credentials, id))
             IN  /\ response'.status = Ok
                 /\ response'.data = "parsed"
                 /\ Len(store'[u].credentials) = Len(storage[p].credentials)
                 /\ store'[u].credentials[i].id = id
                 /\ store'[u].credentials[i].counter = req[p].body.counter]_vars

\* registration, then a challenge, then an accepted authentication that
\* reported a counter of 0: the stored counter is 0
C5_Witness ==
    /\ response.route = "/login/verify"
    /\ response.status = Ok
    /\ response.atLoad.issued # <<>>
    /\ response.atLoad.issued[Len(response.atLoad.issued)].route = "/login/challenge"
    /\ response.body.counter = 0
    /\ LET c == store[response.username].credentials
       IN  /\ Len(c) = 1
           /\ c[1].id = response.body.credentialId
           /\ c[1].counter = 0

(* ---------------------------------------------------------------------- *)
\* C6: an authentication RequestChallenge for a username whose record is
\* absent or has no credential answers 404 at once, issues no challenge and
\* writes nothing; otherwise it goes on to issue one.
C6_UnknownAccount ==
    [][\A u \in DOMAIN issued :
          (Arrives /\ Arrived.route = "/login/challenge" /\ Arrived.username = u)
             => IF u \notin DOMAIN store \/ Len(store[u].credentials) = 0
                THEN /\ Answered
                     /\ response'.status = NotFound
                     /\ response'.challenge = EmptyChallenge
                     /\ store' = store
                     /\ issued' = issued
                ELSE /\ ~Answered
                     /\ store' = store]_vars

\* a 404 for a record that exists and has no credential
C6_Witness ==
    /\ response.route = "/login/challenge"
    /\ response.status = NotFound
    /\ response.username \in DOMAIN store
    /\ store[response.username].credentials = <<>>

(* ---------------------------------------------------------------------- *)
\* C7: a VerifyAuthentication for a username with a pending challenge and no
\* credential with the asserted credentialId answers 404 at once (the
\* verifier is not reached) and leaves the store unchanged.
C7_UnknownCredential ==
    [][\A u \in DOMAIN issued :
          (/\ Arrives
           /\ Arrived.route = "/login/verify"
           /\ Arrived.username = u
           /\ Arrived.body.present
           /\ u \in DOMAIN store
           /\ store[u].challenge # EmptyChallenge
           /\ Matching(store[u].credentials, Arrived.body.credentialId) = {})
             => /\ Answered
                /\ response'.status = NotFound
                /\ expected' = expected
                /\ store' = store]_vars

\* a 404 for an unknown credentialId on a record that has a pending challenge
\* and another credential
C7_Witness ==
    /\ response.route = "/login/verify"
    /\ response.status = NotFound
    /\ response.username \in DOMAIN store
    /\ store[response.username].challenge # EmptyChallenge
    /\ store[response.username].credentials # <<>>
    /\ Matching(store[response.username].credentials,
                response.body.credentialId) = {}

(* ---------------------------------------------------------------------- *)
\* C8: VerifyAuthentication passes an expected counter to the verifier if and
\* only if the matched credential's stored counter is greater than 0, and
\* the value passed is the stored counter; so for a stored counter of 0 the
\* counter is no ground for the verifier to reject, whatever it reports.
C8_CounterExpectation ==
    \A p \in Procs :
       pc[p] \in {"lv_verify", "lv_put"} =>
          LET s == storage[p]
              b == req[p].body
              cred == s.credentials[Least(Matching(s.credentials, b.credentialId))]
          IN  /\ expected[p].challenge = s.challenge
              /\ expected[p].hasCounter <=> cred.counter > 0
              /\ expected[p].hasCounter => expected[p].counter = cred.counter
              /\ (cred.counter = 0 /\ b.challenge = s.challenge)
                    => VerifyAuthenticationMayAccept(b, expected[p])

\* an authentication reporting 0 against a stored counter of 0 was accepted
\* by the verifier and is about to be saved
C8_Witness ==
    \E p \in Procs :
       /\ pc[p] = "lv_put"
       /\ req[p].body.counter = 0
       /\ ~expected[p].hasCounter
       /\ storage[p].credentials[
             Least(Matching(storage[p].credentials, req[p].body.credentialId))
          ].counter = 0

(* ---------------------------------------------------------------------- *)
\* C9: issuing a challenge is side-effect-free with respect to credentials:
\* the invocation holds the record as it was stored at its load (the empty
\* record when there was none), and the record it writes has exactly those
\* credentials and the challenge it returns.
C9_IssuingKeepsCredentials ==
    [][\A p \in Procs :
          /\ (Arrives /\ pc'[p] # pc[p] /\ Arrived.route \in ChallengeRoutes)
                => /\ store' = store
                   /\ storage'[p] =
                         IF Arrived.username \in DOMAIN store
                         THEN store[Arrived.username]
                         ELSE [challenge |-> EmptyChallenge, credentials |-> <<>>]
          /\ Ends(p, {"rc_put", "lc_put"})
                => /\ store'[req[p].username].credentials = storage[p].credentials
                   /\ store'[req[p].username].challenge = challenge[p]
                   /\ response'.status = Ok
                   /\ response'.challenge = challenge[p]]_vars

\* a challenge was issued over an earlier, different one for a record that
\* has a credential with a non-zero counter
C9_Witness ==
    /\ response.route \in ChallengeRoutes
    /\ response.status = Ok
    /\ Len(response.atLoad.issued) >= 1
    /\ response.atLoad.issued[Len(response.atLoad.issued)].challenge
          # response.challenge
    /\ store[response.username].challenge = response.challenge
    /\ \E i \in 1..Len(store[response.username].credentials) :
          store[response.username].credentials[i].counter > 0

(* ---------------------------------------------------------------------- *)
\* C10: when the verifier rejects, VerifyRegistration and VerifyAuthentication
\* answer 400 with the verifier's error and write nothing.
C10_RejectionWritesNothing ==
    [][\A p \in Procs :
          Ends(p, {"rv_verify", "lv_verify"})
             => /\ response'.status = BadRequest
                /\ response'.data = "error"
                /\ store' = store]_vars

\* an authentication bound to the stored challenge was rejected by the
\* verifier; the record still has its challenge and its credentials
C10_Witness ==
    /\ response.route = "/login/verify"
    /\ response.status = BadRequest
    /\ response.data = "error"
    /\ store[response.username].challenge = response.body.challenge
    /\ store[response.username].credentials # <<>>

(* ---------------------------------------------------------------------- *)
\* the most recent of the issuances in succession
LastOf(issuances) == issuances[Len(issuances)]

C12_UniqueCredentialIds ==
    \A u \in DOMAIN store :
       \A i, j \in 1..Len(store[u].credentials) :
          i # j => store[u].credentials[i].id # store[u].credentials[j].id

(* ---------------------------------------------------------------------- *)
\* C13: lost update between concurrent registrations: a VerifyRegistration
\* that loaded the record before another invocation saved an appended
\* credential still returns success, and its save leaves the loaded
\* credentials and its own credential only: the append saved in between is
\* discarded.
C13_LaterSaveDiscardsAppend ==
    [][\A p \in Procs :
          (/\ Ends(p, {"rv_put"})
           /\ Len(store[req[p].username].credentials)
                 > Len(storage[p].credentials))
             => LET new == store'[req[p].username].credentials
                    n == Len(storage[p].credentials)
                IN  /\ response'.status = Ok
                    /\ Len(new) = n + 1
                    /\ SubSeq(new, 1, n) = storage[p].credentials
                    /\ new[n + 1].id = req[p].body.credentialId]_vars

\* two registrations of different credentials for a username without any:
\* the second save was answered with success over a record that held the
\* credential of the first, and the record now holds the second only
C13_Witness ==
    /\ response.route = "/register/verify"
    /\ response.status = Ok
    /\ Len(response.before) = 1
    /\ Len(store[response.username].credentials) = 1
    /\ store[response.username].credentials[1].id = response.body.credentialId
    /\ response.before[1].id # response.body.credentialId

(* ---------------------------------------------------------------------- *)
\* C14: only the most recently issued challenge is ever valid: after a
\* RequestChallenge has completed the stored challenge is the one it wrote,
\* and the save of a verification leaves that challenge in the record (it
\* puts no older challenge back).
C14_MostRecentChallengeStored ==
    [][/\ \A u \in DOMAIN issued' :
             issued'[u] # <<>>
                => store'[u].challenge = LastOf(issued'[u]).challenge
       /\ \A p \in Procs :
             (Ends(p, {"rv_put", "lv_put"}) /\ issued[req[p].username] # <<>>)
                => store'[req[p].username].challenge
                      = LastOf(issued[req[p].username]).challenge]_vars

(* ---------------------------------------------------------------------- *)
\* C15: the save of a successful VerifyRegistration writes the record the
\* invocation loaded with one credential, the registered one, appended at
\* the end: the loaded credentials keep their places and counters, the
\* challenge is the loaded one (not cleared), and no other key is touched.
C15_AppendsOnly ==
    [][\A p \in Procs :
          Ends(p, {"rv_put"}) =>
             LET u == req[p].username
                 old == storage[p]
                 n == Len(old.credentials)
             IN  /\ response'.status = Ok
                 /\ store'[u].challenge = old.challenge
                 /\ store'[u].challenge # EmptyChallenge
                 /\ Len(store'[u].credentials) = n + 1
                 /\ \A i \in 1..n : store'[u].credentials[i] = old.credentials[i]
                 /\ store'[u].credentials[n + 1]
                       = [id |-> req[p].body.credentialId,
                          counter |-> req[p].body.counter]
                 /\ DOMAIN store' = DOMAIN store \cup {u}
                 /\ \A v \in DOMAIN store \ {u} : store'[v] = store[v]]_vars

\* a second credential was registered after a first with a non-zero counter:
\* the first is still in front, and the challenge that was verified is
\* still the stored one
C15_Witness ==
    /\ response.route = "/register/verify"
    /\ response.status = Ok
    /\ Len(response.before) = 1
    /\ response.before[1].counter > 0
    /\ Len(store[response.username].credentials) = 2
    /\ store[response.username].credentials[1] = response.before[1]
    /\ store[response.username].credentials[2].id = response.body.credentialId
    /\ store[response.username].credentials[2].id # response.before[1].id
    /\ store[response.username].challenge = response.body.challenge

(* ---------------------------------------------------------------------- *)
\* C16: the save of a successful VerifyAuthentication writes the record the
\* invocation loaded with one change: the counter of the first credential
\* whose id is the asserted one.  Every other credential, a later one with
\* the same id included, the length and order of the credentials and the
\* challenge are written back as loaded, and no other key is touched.
C16_CounterOnly ==
    [][\A p \in Procs :
          Ends(p, {"lv_put"}) =>
             LET u == req[p].username
                 old == storage[p]
                 i == Least(Matching(old.credentials, req[p].body.credentialId))
             IN  /\ response'.status = Ok
                 /\ store'[u].challenge = old.challenge
                 /\ Len(store'[u].credentials) = Len(old.credentials)
                 /\ \A j \in 1..Len(old.credentials) :
                       /\ store'[u].credentials[j].id = old.credentials[j].id
                       /\ j # i => store'[u].credentials[j] = old.credentials[j]
                 /\ store'[u].credentials[i].counter = req[p].body.counter
                 /\ DOMAIN store' = DOMAIN store
                 /\ \A v \in DOMAIN store \ {u} : store'[v] = store[v]]_vars

\* the record holds the asserted id twice: the first entry has the new
\* counter, which it did not have before, and the second is as it was
C16_Witness ==
    /\ response.route = "/login/verify"
    /\ response.status = Ok
    /\ Len(response.before) = 2
    /\ Len(store[response.username].credentials) = 2
    /\ \A j \in 1..2 :
          /\ response.before[j].id = response.body.credentialId
          /\ store[response.username].credentials[j].id = response.body.credentialId
    /\ response.before[1].counter # response.body.counter
    /\ store[response.username].credentials[1].counter = response.body.counter
    /\ store[response.username].credentials[2] = response.before[2]
    /\ response.before[2].counter # response.body.counter

(* ---------------------------------------------------------------------- *)
\* C17: records are created lazily: a /register/challenge that found no
\* record for its username stores the record with no credentials and the
\* challenge it returns; a record appears only by the save of a
\* /register/challenge; and a record once stored is never absent again.
C17_LazyCreation ==
    [][/\ \A p \in Procs :
             /\ (pc[p] = "idle" /\ pc'[p] = "rc_put")
                   => (storage'[p].challenge = EmptyChallenge
                          <=> Arrived.username \notin DOMAIN store)
             /\ (Ends(p, {"rc_put"}) /\ storage[p].challenge = EmptyChallenge)
                   => /\ store'[req[p].username]
                            = [challenge |-> challenge[p], credentials |-> <<>>]
                      /\ challenge[p] # EmptyChallenge
                      /\ response'.status = Ok
                      /\ response'.challenge = challenge[p]
       /\ \A u \in DOMAIN store' \ DOMAIN store :
             \E p \in Procs : Ends(p, {"rc_put"}) /\ req[p].username = u
       /\ DOMAIN store \subseteq DOMAIN store']_vars

\* the first request for a username was a /register/challenge: the record
\* now stored has no credentials and the challenge that was returned
C17_Witness ==
    /\ response.route = "/register/challenge"
    /\ response.status = Ok
    /\ response.atLoad = [consumed |-> FALSE, issued |-> <<>>]
    /\ response.before = <<>>
    /\ store[response.username]
          = [challenge |-> response.challenge, credentials |-> <<>>]

(* ---------------------------------------------------------------------- *)
\* C18: error precedence of VerifyAuthentication: a request without username
\* or assertion is answered 400 whatever the store holds; otherwise one for
\* an absent record or an empty challenge is answered 410; otherwise one
\* whose credential id is not in the record is answered 404; otherwise the
\* verifier is reached.  None of these steps writes to the store.
C18_ErrorPrecedence ==
    [][(Arrives /\ Arrived.route = "/login/verify")
          => LET u == Arrived.username
                 b == Arrived.body
             IN  /\ store' = store
                 /\ IF u = "" \/ ~b.present
                    THEN /\ Answered
                         /\ response'.status = BadRequest
                         /\ response'.data = "{}"
                    ELSE IF u \notin DOMAIN store
                            \/ store[u].challenge = EmptyChallenge
                    THEN Answered /\ response'.status = Gone
                    ELSE IF Matching(store[u].credentials, b.credentialId) = {}
                    THEN Answered /\ response'.status = NotFound
                    ELSE /\ ~Answered
                         /\ \E p \in Procs :
                               pc[p] = "idle" /\ pc'[p] = "lv_verify"]_vars

\* an authentication for a username without a record was answered 410
C18_Witness ==
    /\ response.route = "/login/verify"
    /\ response.status = Gone
    /\ response.username # ""
    /\ response.body.present
    /\ response.username \notin DOMAIN store

(* ---------------------------------------------------------------------- *)
\* C19: every stored record has a non-empty challenge, so a verification is
\* answered 410 only when there is no record for its username, never
\* because a successful verification consumed the challenge.
C19_ChallengeNeverEmpty ==
    [][/\ \A u \in DOMAIN store' : store'[u].challenge # EmptyChallenge
       /\ (/\ Answered
           /\ Arrived.route \in VerifyRoutes
           /\ response'.status = Gone)
             => /\ Arrived.username \notin DOMAIN store
                /\ ~consumed[Arrived.username]]_vars

\* a verification that loaded the record after a successful verification,
\* with no issuance in between, found the challenge in place and succeeded
C19_Witness ==
    /\ response.route \in VerifyRoutes
    /\ response.status = Ok
    /\ response.atLoad.consumed
    /\ response.atLoad.issued = <<>>
    /\ store[response.username].challenge = response.body.challenge

(* ---------------------------------------------------------------------- *)
\* C20: per-username isolation: an invocation loads the record stored under
\* the username of its request, and the record of a username v (its
\* presence, challenge, credentials, counters) changes only in a step that
\* is the save of a request for v.
C20_PerUsernameIsolation ==
    [][/\ \A p \in Procs :
             (pc[p] = "idle" /\ pc'[p] # "idle")
                => storage'[p] =
                      IF Arrived.username \in DOMAIN store
                      THEN store[Arrived.username]
                      ELSE [challenge |-> EmptyChallenge, credentials |-> <<>>]
       /\ \A v \in DOMAIN issued :
             (\/ (v \in DOMAIN store') # (v \in DOMAIN store)
              \/ (v \in DOMAIN store /\ store'[v] # store[v]))
                => \E p \in Procs :
                      /\ Ends(p, {"rc_put", "rv_put", "lc_put", "lv_put"})
                      /\ req[p].username = v]_vars

\* a credential was registered for bob while alice's record held another
\* challenge and a credential of its own, and alice's record is as it was
C20_Witness ==
    /\ response.route = "/register/verify"
    /\ response.status = Ok
    /\ response.username = "bob"
    /\ DOMAIN store = {"alice", "bob"}
    /\ Len(store["alice"].credentials) = 1
    /\ Len(store["bob"].credentials) = 1
    /\ store["alice"].credentials[1].id # store["bob"].credentials[1].id
    /\ store["alice"].challenge # store["bob"].challenge

====
